---- MODULE Spec2Model ----
(***************************************************************************)
(* A model of the hub75-remastered driver (src/src/lib.rs, src/src/pins.rs) *)
(* for a 64x32 HUB75 panel: construction with the frame time compensation, *)
(* the framebuffer written by draw_iter and wipe, and the scan `output`.   *)
(*                                                                         *)
(* u32 values are kept as two 16-bit limbs (TLC's integers are 32-bit      *)
(* signed), so that the saturation of `as u32` and the overflow of the u32 *)
(* product in `duration` keep their real width.                            *)
(*                                                                         *)
(* on_ratio is an f64 in the code.  The model draws it from the dyadic     *)
(* rationals num / 2^exp with exp <= 30.  For these p * on_ratio and       *)
(* 1 - on_ratio are exact in f64, and the rounding of the one division     *)
(* (relative error 2^-53) is smaller than the distance 1 / (2^exp - num)   *)
(* of a non-integral quotient to the next integer, so the truncation of    *)
(* the f64 quotient is the floor of the exact quotient.                    *)
(***************************************************************************)
EXTENDS Integers, Sequences, FiniteSets, TLC

VARIABLES
    BITS,          \* the const generic BITS: u8 of the display type
    on_ratio,      \* the on_ratio passed to new: [num, exp], num / 2^exp
    phase,         \* "unbuilt", "ready", "scanning" or "panicked"
    h,             \* ftc.h, a u32
    durations,     \* the values duration(0), duration(1), ... computed so far
    top_data,      \* [[(u8, u8, u8); 64]; 16]
    bottom_data,   \* [[(u8, u8, u8); 64]; 16]
    row_i,         \* output: the row index i of the outer loop
    mask,          \* output: the bit-plane of the middle loop
    col,           \* output: the column of the inner loop
    pc,            \* output: the pin call the scan is about to make
    result,        \* what the last output or draw_iter call returned
    calls,         \* the pin calls made by the current (or last) output call
    panel,         \* the panel as the pins drive it: output-enable, row
                   \* address, shift register and latches
    pixels,        \* the items of the last draw_iter call
    palette,       \* the colors the application draws with
    drawn          \* the number of items passed to draw_iter so far

ftcVars == <<BITS, on_ratio, h, durations>>
fbVars == <<top_data, bottom_data>>
scanVars == <<row_i, mask, col, pc, calls, panel>>
drawVars == <<pixels, palette, drawn>>
vars == <<ftcVars, phase, fbVars, scanVars, result, drawVars>>

----------------------------------------------------------------------------
(* Program constants *)

\* the panel has 16 row pairs: [[..; 64]; 32 / 2]
Rows == 16
\* and 64 columns
Cols == 64
\* a color channel is a u8: the 8 of `mask + 8 - BITS`
ChannelBits == 8

(* Bounds of the model *)

\* BITS is drawn from 0 .. MaxBits
MaxBits == 9

----------------------------------------------------------------------------
(* Unsigned 32-bit values as two 16-bit limbs *)

Limb == 65536

U32(hi, lo) == [hi |-> hi, lo |-> lo]

U32Max == U32(Limb - 1, Limb - 1)

U32Zero == U32(0, 0)

\* n in 0 .. 2^31 - 1 as a u32
ToU32(n) == U32(n \div Limb, n % Limb)

U32Leq(x, y) == x.hi < y.hi \/ (x.hi = y.hi /\ x.lo <= y.lo)

IsU32(x) == x.hi \in 0 .. Limb - 1 /\ x.lo \in 0 .. Limb - 1

\* x * m + a for a u32 x and small m, a (m < 2^15): the low 32 bits and what
\* lies above them (ovf > 0: the product does not fit in a u32)
WideMulAdd(x, m, a) ==
    LET l == x.lo * m + a
        u == x.hi * m + l \div Limb
    IN [ovf |-> u \div Limb, val |-> U32(u % Limb, l % Limb)]

\* x / d for a u32 x and 0 < d < 2^15
DivSmall(x, d) ==
    LET r == x.hi % d
    IN U32(x.hi \div d, (r * Limb + x.lo) \div d)

RECURSIVE Pow2(_)
Pow2(n) == IF n = 0 THEN 1 ELSE 2 * Pow2(n - 1)

----------------------------------------------------------------------------
(* FrameTimeCompensation (lib.rs 27-46) *)

\* An arithmetic overflow panics in a build with overflow checks and wraps in
\* one without: where the code can overflow, the model takes either outcome.

\* the value of on_ratio as num / 2^exp
Ratio(num, exp) == [num |-> num, exp |-> exp]

\* (0f64..1f64).contains(&on_ratio): a half-open range, 0 <= on_ratio < 1
RatioAccepted(r) == 0 <= r.num /\ r.num < Pow2(r.exp)

\* 2 * BITS + 1 in u8 arithmetic
P(bits) == (2 * bits + 1) % 256

POverflows(bits) == 2 * bits + 1 > 255

\* floor(k * a / b) for 0 <= a < b by repeated addition: [q, r] with
\* k * a = q * b + r
RECURSIVE MulDiv(_, _, _)
MulDiv(k, a, b) ==
    IF k = 0 THEN [q |-> 0, r |-> 0]
    ELSE LET s == MulDiv(k - 1, a, b)
         IN IF s.r + a >= b THEN [q |-> s.q + 1, r |-> s.r + a - b]
            ELSE [q |-> s.q, r |-> s.r + a]

\* (a variant whose cast wraps: `as u64 as u32`)
FtcHWrapping(bits, r) ==
    LET p == P(bits)
        b == Pow2(r.exp) - r.num
    IN WideMulAdd(ToU32(r.num \div b), p, MulDiv(p, r.num % b, b).q).val

\* ((p * on_ratio) / (1. - on_ratio)) as u32: the quotient truncated, and
\* saturated at u32::MAX (a float-to-integer `as` cast saturates)
FtcH(bits, r) ==
    LET p == P(bits)
        b == Pow2(r.exp) - r.num
        w == WideMulAdd(ToU32(r.num \div b), p, MulDiv(p, r.num % b, b).q)
    IN IF w.ovf > 0 THEN U32Max ELSE w.val

\* FrameTimeCompensation::new: the assert, then h
FtcNew(bits, r) ==
    LET panicked == [panic |-> TRUE, h |-> U32Zero]
        built == [panic |-> FALSE, h |-> FtcH(bits, r)]
    IN IF ~RatioAccepted(r) THEN {panicked}
       ELSE IF POverflows(bits) THEN {panicked, built}
       ELSE {built}

\* (a variant with the weight mask + 1 in place of 2^mask)
DurationProductLinear(hval, m) == WideMulAdd(hval, m + 1, 0)

\* the u32 product 2u32.pow(mask) * self.h: its low 32 bits, and whether it
\* overflows
DurationProduct(hval, m) == WideMulAdd(hval, Pow2(m), 0)

\* (a variant that rounds the quotient to the nearest integer)
DurationValueRounded(bits, hval, m) ==
    DivSmall(WideMulAdd(hval, Pow2(m), (Pow2(bits) - 1) \div 2).val, Pow2(bits) - 1)

\* the value of 2^mask * h / (2^BITS - 1) in wrapping u32 arithmetic
\* (BITS > 0)
DurationValue(bits, hval, m) ==
    DivSmall(DurationProduct(hval, m).val, Pow2(bits) - 1)

\* FrameTimeCompensation::duration: the value, or a panic (the division by 0
\* for BITS = 0, or the product overflowing under overflow checks)
Duration(bits, hval, m) ==
    LET panicked == [panic |-> TRUE, val |-> U32Zero]
    IN IF Pow2(bits) - 1 = 0 THEN {panicked}
       ELSE LET value == [panic |-> FALSE, val |-> DurationValue(bits, hval, m)]
            IN IF DurationProduct(hval, m).ovf > 0 THEN {panicked, value}
               ELSE {value}

----------------------------------------------------------------------------
(* The framebuffer (lib.rs 58-59, 92-94, 128-131) *)

\* a cell (u8, u8, u8) of the framebuffer, kept as the one number
\* r * 2^16 + g * 2^8 + b (the three channels are read back with Red, Green
\* and Blue): a state holds 2048 cells
Cell(r, g, b) == (r * 256 + g) * 256 + b

Red(cell) == cell \div 65536

Green(cell) == (cell \div 256) % 256

Blue(cell) == cell % 256

Black == Cell(0, 0, 0)

\* [[(0, 0, 0); 64]; 16]
ZeroData == [r \in 0 .. Rows - 1 |-> [c \in 0 .. Cols - 1 |-> Black]]

\* the fields of a display that is not constructed
NoData == <<>>

\* the framebuffer as one value; ok is FALSE once an index expression of
\* draw_iter was out of range (it panics)
Data(top, bottom) == [top |-> top, bottom |-> bottom, ok |-> TRUE]

----------------------------------------------------------------------------
(* DrawTarget::draw_iter (lib.rs 169-212) *)

Gamma8Table == <<
    0, 0, 0, 0, 0, 0, 0, 0, 0, 0, 0, 0, 0, 0, 0, 0, 0, 0, 0, 0, 0, 0, 0, 0, 0, 0, 0, 0, 1,
    1, 1, 1, 1, 1, 1, 1, 1, 1, 1, 1, 1, 2, 2, 2, 2, 2, 2, 2, 2, 3, 3, 3, 3, 3, 3, 3, 4, 4,
    4, 4, 4, 5, 5, 5, 5, 6, 6, 6, 6, 7, 7, 7, 7, 8, 8, 8, 9, 9, 9, 10, 10, 10, 11, 11, 11,
    12, 12, 13, 13, 13, 14, 14, 15, 15, 16, 16, 17, 17, 18, 18, 19, 19, 20, 20, 21, 21, 22,
    22, 23, 24, 24, 25, 25, 26, 27, 27, 28, 29, 29, 30, 31, 32, 32, 33, 34, 35, 35, 36, 37,
    38, 39, 39, 40, 41, 42, 43, 44, 45, 46, 47, 48, 49, 50, 50, 51, 52, 54, 55, 56, 57, 58,
    59, 60, 61, 62, 63, 64, 66, 67, 68, 69, 70, 72, 73, 74, 75, 77, 78, 79, 81, 82, 83, 85,
    86, 87, 89, 90, 92, 93, 95, 96, 98, 99, 101, 102, 104, 105, 107, 109, 110, 112, 114,
    115, 117, 119, 120, 122, 124, 126, 127, 129, 131, 133, 135, 137, 138, 140, 142, 144,
    146, 148, 150, 152, 154, 156, 158, 160, 162, 164, 167, 169, 171, 173, 175, 177, 180,
    182, 184, 186, 189, 191, 193, 196, 198, 200, 203, 205, 208, 210, 213, 215, 218, 220,
    223, 225, 228, 231, 233, 236, 239, 241, 244, 247, 249, 252, 255 >>

\* (a variant that reads the table from its end)
GAMMA8Inverted(i) == Gamma8Table[256 - i]

\* GAMMA8[i], i counted from 0
GAMMA8(i) == Gamma8Table[i + 1]

\* the bounds of the test in line 194, and the split of line 195
DrawWidth == 64
DrawHeight == 32
DrawSplit == 16

\* an Rgb565 color as <<r, g, b>>, r and b in 0 .. 31, g in 0 .. 63
Pixel(x, y, color) == [x |-> x, y |-> y, color |-> color]

\* (a variant that shifts the channel: `r << 3`)
Index5Shifted(v) == v * 8

\* the index of a 5-bit channel into GAMMA8
Index5(v) == (v + 1) * 8 - 1

\* (a variant that scales the green channel as a 5-bit one)
Index6AsFive(v) == (v + 1) * 8 - 1

\* the index of the 6-bit channel into GAMMA8
Index6(v) == (v + 1) * 4 - 1

\* the cell stored for a color (lines 196-200 and 202-206)
Quantize(color) ==
    Cell(GAMMA8(Index5(color[1])), GAMMA8(Index6(color[2])), GAMMA8(Index5(color[3])))

\* (a variant without the tests against 0)
InBoundsUnsigned(px) == px.x < DrawWidth /\ px.y < DrawHeight

\* the test of line 194
InBounds(px) == px.x >= 0 /\ px.x < DrawWidth /\ px.y >= 0 /\ px.y < DrawHeight

\* the test of line 195
InTop(px) == px.y < DrawSplit

\* a[r][c] = v for a half a, with the bounds checks of the two index
\* expressions and of the three GAMMA8[..] (`as usize` of the in-bounds i32)
Store(data, half, r, c, color) ==
    IF /\ r \in 0 .. Rows - 1 /\ c \in 0 .. Cols - 1
       /\ Index5(color[1]) \in 0 .. Len(Gamma8Table) - 1
       /\ Index6(color[2]) \in 0 .. Len(Gamma8Table) - 1
       /\ Index5(color[3]) \in 0 .. Len(Gamma8Table) - 1
    THEN [data EXCEPT ![half][r][c] = Quantize(color)]
    ELSE [data EXCEPT !.ok = FALSE]

\* (a variant with the halves exchanged)
DrawPixelSwapped(data, px) ==
    IF ~data.ok THEN data
    ELSE IF InBounds(px)
         THEN IF InTop(px)
              THEN Store(data, "bottom", px.y, px.x, px.color)
              ELSE Store(data, "top", px.y - DrawSplit, px.x, px.color)
         ELSE data

\* the body of the loop for one item
DrawPixel(data, px) ==
    IF ~data.ok THEN data
    ELSE IF InBounds(px)
         THEN IF InTop(px)
              THEN Store(data, "top", px.y, px.x, px.color)
              ELSE Store(data, "bottom", px.y - DrawSplit, px.x, px.color)
         ELSE data

\* (a variant that takes the items from the last to the first)
RECURSIVE DrawAllReversed(_, _)
DrawAllReversed(data, pxs) ==
    IF pxs = <<>> THEN data
    ELSE DrawPixel(DrawAllReversed(data, Tail(pxs)), Head(pxs))

\* the loop over the items
RECURSIVE DrawAll(_, _)
DrawAll(data, pxs) ==
    IF pxs = <<>> THEN data ELSE DrawAll(DrawPixel(data, Head(pxs)), Tail(pxs))

----------------------------------------------------------------------------
(* The pin traits and their tuple implementations (pins.rs) *)

\* the values of the pins' error type E
Errors == {"E1", "E2"}

PinOk == [ok |-> TRUE, err |-> "none"]

PinErr(e) == [ok |-> FALSE, err |-> e]

\* what a pin call can return: Ok(()) or Err(e)
PinOutcomes == {PinOk} \cup {PinErr(e) : e \in Errors}

\* (a variant that takes the bits from the least significant end)
ShiftAmountLsb(bits, m) == m % 256

\* mask + 8 - BITS in u8 arithmetic, as it wraps with overflow checks off
ShiftAmount(bits, m) == (m + ChannelBits - bits) % 256

\* the u8 expression overflows, or shifts a u8 by 8 or more
SetColorOverflows(bits, m) ==
    \/ m + ChannelBits > 255
    \/ m + ChannelBits < bits
    \/ m + ChannelBits - bits >= ChannelBits

\* what the bit computations of set_color do
SetColorOutcomes(bits, m) ==
    IF SetColorOverflows(bits, m) THEN {"panic", "wrap"} ELSE {"exact"}

\* (v >> amount) & 0x1; with overflow checks off the shift of a u8 takes the
\* amount modulo 8
BitOf(v, amount) == (v \div Pow2(amount % ChannelBits)) % 2

\* set_color of (R, G, B): the levels of the three pins, 1 for High
ColorLevels(bits, color, m) ==
    LET a == ShiftAmount(bits, m)
    IN <<BitOf(Red(color), a), BitOf(Green(color), a), BitOf(Blue(color), a)>>

\* the columns a register of the panel holds: the first n columns of
\* bit-plane m of framebuffer row r of the current output call, or (with
\* row = -1) something else: what an earlier call or a failed call left
Plane(r, m, n) == [row |-> r, mask |-> m, n |-> n]

OtherPlane == Plane(-1, -1, 0)

\* what the pins have been driven to when no call has driven them yet
PowerOn ==
    [oe |-> "unknown", addr |-> -1, reg |-> OtherPlane, latched |-> OtherPlane,
     events |-> <<>>]

\* at the start of an output call the row address and the registers hold
\* what earlier calls left; output-enable keeps its level
Earlier(pn) == [PowerOn EXCEPT !.oe = pn.oe]

\* set_row of (A, B, C, D): the four address pins carry row; a failure
\* leaves some of them undriven
Addressed(pn, r, o) == [pn EXCEPT !.addr = IF o.ok THEN r ELSE -1]

\* shift of (Clk, Latch, Output): the clock pulse moves the column the color
\* pins carry into the shift register
Clocked(pn, r, m, c, o) ==
    [pn EXCEPT !.reg = IF ~o.ok THEN OtherPlane
                       ELSE IF c = 0 THEN Plane(r, m, 1)
                       ELSE IF pn.reg = Plane(r, m, c) THEN Plane(r, m, c + 1)
                       ELSE OtherPlane]

\* latch of (Clk, Latch, Output): the latch pulse copies the shift register
\* into the output latches
Latched(pn, o) == [pn EXCEPT !.latched = IF o.ok THEN pn.reg ELSE OtherPlane]

\* one operation of show on the output-enable pin or the delay provider
PinEvent(op, us) == [op |-> op, us |-> us]

\* (a variant with the polarity of output-enable exchanged)
ShowEventsInverted(d) ==
    <<PinEvent("set_high", U32Zero), PinEvent("delay_us", d),
      PinEvent("set_low", U32Zero)>>

\* (a variant that leaves output-enable low)
ShowEventsLeftLow(d) ==
    <<PinEvent("set_low", U32Zero), PinEvent("delay_us", d)>>

\* show of (Clk, Latch, Output): self.2.set_low()?; delay.delay_us(duration);
\* self.2.set_high()?
ShowEvents(d) ==
    <<PinEvent("set_low", U32Zero), PinEvent("delay_us", d),
      PinEvent("set_high", U32Zero)>>

\* the positions of ShowEvents(d) that can fail: the calls on the pin
FalliblePositions(events) ==
    {k \in 1 .. Len(events) : events[k].op \in {"set_low", "set_high"}}

\* what show can return, with the operations it completed
ShowOutcomes(d) ==
    {[ok |-> TRUE, err |-> "none", events |-> ShowEvents(d)]}
    \cup {[ok |-> FALSE, err |-> e, events |-> SubSeq(ShowEvents(d), 1, k - 1)] :
              k \in FalliblePositions(ShowEvents(d)), e \in Errors}

\* the level of output-enable after show: that of the last set_low or
\* set_high; a failed call leaves it unknown
OeAfter(oe, o) ==
    LET sets == SelectSeq(o.events, LAMBDA e : e.op # "delay_us")
    IN IF ~o.ok THEN "unknown"
       ELSE IF sets = <<>> THEN oe
       ELSE IF sets[Len(sets)].op = "set_low" THEN "low" ELSE "high"

Shown(pn, o) == [pn EXCEPT !.oe = OeAfter(pn.oe, o), !.events = o.events]

----------------------------------------------------------------------------
(* Hub75_64_32_2::output (lib.rs 106-125) *)

\* a set_color call: on which pins, with which cell and mask; pos is the
\* bit position mask + 8 - BITS the tuple implementation computes
ColorCall(pins, color, m) ==
    [pins |-> pins, color |-> color, mask |-> m,
     pos |-> ShiftAmount(BITS, m), levels |-> ColorLevels(BITS, color, m)]

\* a set_row, shift, latch or show call and its argument
SeqCall(op, arg) == [op |-> op, arg |-> arg]

NoArg == "none"

\* the pin calls of an output call that has made none
NoCalls ==
    [cnt |-> [set_row |-> 0, set_color |-> 0, shift |-> 0, latch |-> 0, show |-> 0],
     last |-> SeqCall("none", NoArg),
     ops |-> <<"none", "none">>,
     row |-> -1,
     pending |-> <<>>,
     shifted |-> <<>>,
     failed |-> "none"]

\* the record after one more call: its counter, the last two operations, and
\* the error if it failed
Called(c, op, o) ==
    [c EXCEPT !.cnt[op] = @ + 1,
              !.ops = <<c.ops[2], op>>,
              !.failed = o.err]

CalledSetRow(c, r, o) ==
    [Called(c, "set_row", o) EXCEPT !.last = SeqCall("set_row", r), !.row = r]

CalledColor(c, call, o) ==
    [Called(c, "set_color", o) EXCEPT !.pending = Append(c.pending, call)]

CalledShift(c, o) ==
    [Called(c, "shift", o) EXCEPT !.last = SeqCall("shift", NoArg),
                                  !.shifted = c.pending,
                                  !.pending = <<>>]

CalledLatch(c, o) ==
    [Called(c, "latch", o) EXCEPT !.last = SeqCall("latch", NoArg)]

CalledShow(c, d, o) ==
    [Called(c, "show", o) EXCEPT !.last = SeqCall("show", d)]

\* what a call returned: of which method, Ok or Err, and the error
NoResult == [of |-> "none", kind |-> "none", err |-> "none"]

OkResult == [of |-> "output", kind |-> "Ok", err |-> "none"]

ErrResult(e) == [of |-> "output", kind |-> "Err", err |-> e]

\* (a variant that drops the error: `let _ = ...;` in place of `...?`)
PropagatesNever(o) == FALSE

\* the ? operator: an Err(e) returns from output
Propagates(o) == ~o.ok

\* with From::from(e), the identity for the one error type E
Propagated(o) == ErrResult(o.err)

\* (a variant that zips the lower half with itself)
UpperColFromLower(r, c) == bottom_data[r][c]

\* upper_row[col] and lower_row[col] of the zipped iterators
UpperCol(r, c) == top_data[r][c]

LowerCol(r, c) == bottom_data[r][c]

Goto(r, m, c, p, cl) ==
    /\ phase' = "scanning"
    /\ row_i' = r /\ mask' = m /\ col' = c /\ pc' = p
    /\ calls' = cl
    /\ UNCHANGED <<ftcVars, fbVars, result, drawVars>>

\* (a variant that clears the framebuffer when the scan returns)
ReturnCleared(res, cl) ==
    /\ phase' = "ready"
    /\ row_i' = 0 /\ mask' = 0 /\ col' = 0 /\ pc' = "idle"
    /\ calls' = cl
    /\ result' = res
    /\ top_data' = ZeroData /\ bottom_data' = ZeroData
    /\ UNCHANGED <<ftcVars, drawVars>>

Return(res, cl) ==
    /\ phase' = "ready"
    /\ row_i' = 0 /\ mask' = 0 /\ col' = 0 /\ pc' = "idle"
    /\ calls' = cl
    /\ result' = res
    /\ UNCHANGED <<ftcVars, fbVars, drawVars>>

\* a panic: the program stops; pc names the code that panicked
Panic(where) ==
    /\ phase' = "panicked"
    /\ pc' = where
    /\ UNCHANGED <<ftcVars, fbVars, row_i, mask, col, calls, panel, result, drawVars>>

\* the end of the iteration for row row_i
NextRow(cl) ==
    IF row_i + 1 < Rows THEN Goto(row_i + 1, 0, 0, "set_row", cl)
    ELSE Return(OkResult, cl)

\* (a variant with the inclusive range 0..=BITS)
NextPlaneInclusive(m, cl) ==
    IF m <= BITS THEN Goto(row_i, m, 0, "upper", cl) ELSE NextRow(cl)

\* the iteration of `for mask in 0..BITS` for m, or the end of that loop
NextPlane(m, cl) ==
    IF m < BITS THEN Goto(row_i, m, 0, "upper", cl) ELSE NextRow(cl)

OutputBegin ==
    /\ phase = "ready"
    /\ phase' = "scanning"
    /\ row_i' = 0 /\ mask' = 0 /\ col' = 0 /\ pc' = "set_row"
    /\ calls' = NoCalls
    /\ panel' = Earlier(panel)
    /\ result' = NoResult
    /\ UNCHANGED <<ftcVars, fbVars, drawVars>>

\* self.row_pins.set_row(&(i as u8))?
SetRow ==
    /\ phase = "scanning" /\ pc = "set_row"
    /\ \E o \in PinOutcomes :
          LET cl == CalledSetRow(calls, row_i, o)
          IN /\ panel' = Addressed(panel, row_i, o)
             /\ IF Propagates(o) THEN Return(Propagated(o), cl)
                ELSE NextPlane(0, cl)

\* self.upper_color_pins.set_color::<BITS>(upper_col, &mask)?
UpperColor ==
    /\ phase = "scanning" /\ pc = "upper"
    /\ \E bits \in SetColorOutcomes(BITS, mask) :
          IF bits = "panic" THEN Panic("set_color")
          ELSE \E o \in PinOutcomes :
                  LET cl == CalledColor(calls, ColorCall("upper", UpperCol(row_i, col), mask), o)
                  IN /\ panel' = panel
                     /\ IF Propagates(o) THEN Return(Propagated(o), cl)
                        ELSE Goto(row_i, mask, col, "lower", cl)

\* self.lower_color_pins.set_color::<BITS>(lower_col, &mask)?
LowerColor ==
    /\ phase = "scanning" /\ pc = "lower"
    /\ \E bits \in SetColorOutcomes(BITS, mask) :
          IF bits = "panic" THEN Panic("set_color")
          ELSE \E o \in PinOutcomes :
                  LET cl == CalledColor(calls, ColorCall("lower", LowerCol(row_i, col), mask), o)
                  IN /\ panel' = panel
                     /\ IF Propagates(o) THEN Return(Propagated(o), cl)
                        ELSE Goto(row_i, mask, col, "shift", cl)

\* self.data_pins.shift(delay)?, and the step of the column loop
Shift ==
    /\ phase = "scanning" /\ pc = "shift"
    /\ \E o \in PinOutcomes :
          LET cl == CalledShift(calls, o)
          IN /\ panel' = Clocked(panel, row_i, mask, col, o)
             /\ IF Propagates(o) THEN Return(Propagated(o), cl)
                ELSE IF col + 1 < Cols THEN Goto(row_i, mask, col + 1, "upper", cl)
                     ELSE Goto(row_i, mask, 0, "latch", cl)

\* self.data_pins.latch(delay)?
Latch ==
    /\ phase = "scanning" /\ pc = "latch"
    /\ \E o \in PinOutcomes :
          LET cl == CalledLatch(calls, o)
          IN /\ panel' = Latched(panel, o)
             /\ IF Propagates(o) THEN Return(Propagated(o), cl)
                ELSE Goto(row_i, mask, 0, "show", cl)

\* self.data_pins.show(delay, self.ftc.duration(&mask))?, and the step of
\* the mask loop
Show ==
    /\ phase = "scanning" /\ pc = "show"
    /\ \E d \in Duration(BITS, h, mask) :
          IF d.panic THEN Panic("duration")
          ELSE \E o \in ShowOutcomes(d.val) :
                  LET cl == CalledShow(calls, d.val, o)
                  IN /\ panel' = Shown(panel, o)
                     /\ IF Propagates(o) THEN Return(Propagated(o), cl)
                        ELSE NextPlane(mask + 1, cl)

----------------------------------------------------------------------------
(* Construction, wipe, draw_iter and duration as steps *)

\* Hub75_64_32_2::new (lib.rs 81-101)
New ==
    /\ phase = "unbuilt"
    /\ \E f \in FtcNew(BITS, on_ratio) :
          IF f.panic THEN Panic("new")
          ELSE /\ phase' = "ready"
               /\ h' = f.h
               /\ top_data' = ZeroData
               /\ bottom_data' = ZeroData
               /\ UNCHANGED <<BITS, on_ratio, durations, scanVars, result, drawVars>>

\* (a variant that clears the upper half only)
WipeUpperHalf ==
    /\ phase = "ready"
    /\ top_data' = ZeroData
    /\ result' = [of |-> "wipe", kind |-> "unit", err |-> "none"]
    /\ UNCHANGED <<ftcVars, phase, bottom_data, scanVars, drawVars>>

\* Hub75_64_32_2::wipe (lib.rs 128-131)
Wipe ==
    /\ phase = "ready"
    /\ top_data' = ZeroData
    /\ bottom_data' = ZeroData
    /\ result' = [of |-> "wipe", kind |-> "unit", err |-> "none"]
    /\ UNCHANGED <<ftcVars, phase, scanVars, drawVars>>

\* the coordinates the application draws at: the corners of the panel, both
\* sides of the split between the halves, and points outside the box
DrawCoords ==
    {<<0, 0>>, <<63, 15>>, <<0, 16>>, <<63, 31>>,
     <<64, 0>>, <<0, 32>>, <<-1, 0>>, <<0, -1>>}

\* at most MaxPixels items are passed to draw_iter in one behaviour
MaxPixels == 2

Items == {Pixel(xy[1], xy[2], c) : xy \in DrawCoords, c \in palette}

\* DrawTarget::draw_iter (lib.rs 169-212) over the items pxs
DrawIter ==
    /\ phase = "ready"
    /\ \E n \in 0 .. MaxPixels - drawn :
       \E pxs \in [1 .. n -> Items] :
          LET data == DrawAll(Data(top_data, bottom_data), pxs)
          IN /\ pixels' = pxs
             /\ drawn' = drawn + n
             /\ IF ~data.ok
                THEN /\ phase' = "panicked"
                     /\ pc' = "draw_iter"
                     /\ UNCHANGED <<fbVars, result>>
                ELSE /\ top_data' = data.top
                     /\ bottom_data' = data.bottom
                     /\ result' = [of |-> "draw_iter", kind |-> "Ok", err |-> "none"]
                     /\ UNCHANGED <<phase, pc>>
             /\ UNCHANGED <<ftcVars, row_i, mask, col, calls, panel, palette>>

\* self.ftc.duration(&mask) for the next mask of 0..BITS, as output calls it
CallDuration ==
    /\ phase = "ready"
    /\ Len(durations) < BITS
    /\ \E d \in Duration(BITS, h, Len(durations)) :
          IF d.panic THEN Panic("duration")
          ELSE /\ durations' = Append(durations, d.val)
               /\ UNCHANGED <<BITS, on_ratio, h, phase, fbVars, scanVars,
                              result, drawVars>>

----------------------------------------------------------------------------
(* Construction and the frame time compensation: new on a display type with
   BITS and an on_ratio, then duration for the masks of a scan *)

\* a display type and the arguments of new, before new is called
Unbuilt(bitsSet, ratios, palettes) ==
    /\ BITS \in bitsSet
    /\ on_ratio \in ratios
    /\ phase = "unbuilt"
    /\ h = U32Zero
    /\ durations = <<>>
    /\ top_data = NoData
    /\ bottom_data = NoData
    /\ row_i = 0 /\ mask = 0 /\ col = 0 /\ pc = "idle"
    /\ result = NoResult
    /\ calls = NoCalls
    /\ panel = PowerOn
    /\ pixels = <<>>
    /\ palette \in palettes
    /\ drawn = 0

\* the on_ratio of the displays that are drawn on and scanned: 3/4
ScanRatios == {Ratio(3, 2)}

\* for the frame time compensation on_ratio is drawn from the n / 2^DenseExp between -1/8 and 3/2, ...
DenseExp == 4

\* ... and from the 2^-e and 1 - 2^-e for these e
RatioExps == {8, 16, 22, 24, 25, 26, 27, 28, 29, 30}

FtcRatios ==
    {Ratio(n, DenseExp) : n \in -2 .. Pow2(DenseExp) + Pow2(DenseExp - 1)}
    \cup {Ratio(1, e) : e \in RatioExps}
    \cup {Ratio(Pow2(e) - 1, e) : e \in RatioExps}

InitFtc == Unbuilt(0 .. MaxBits, FtcRatios, {{}})

NextFtc ==
    \/ New
    \/ CallDuration

SpecFtc == InitFtc /\ [][NextFtc]_vars

----------------------------------------------------------------------------
(* Drawing: new, then draw_iter and wipe calls *)

\* 64 colors in which every value of every channel occurs
WideColor(k) == <<k % 32, k, 31 - (k % 32)>>

\* the application draws with black and white, or with one of the colors
\* above
Palettes == {{<<0, 0, 0>>, <<31, 63, 31>>}} \cup {{WideColor(k)} : k \in 0 .. 63}

InitDraw == Unbuilt({ChannelBits}, ScanRatios, Palettes)

NextDraw ==
    \/ New
    \/ DrawIter
    \/ Wipe

SpecDraw == InitDraw /\ [][NextDraw]_vars

----------------------------------------------------------------------------
(* The scan: a display after new and the drawing of a test pattern, and the
   output calls made on it *)

\* a test pattern whose 2048 stored cells differ from one another
PatternColor(x, y) ==
    <<16 + (y % 16), 32 + (x % 32), 16 + 2 * (x \div 32) + (y \div 16)>>

\* the framebuffer after draw_iter over Pixel(x, y, PatternColor(x, y)) for
\* every point of the panel
PatternData ==
    Data([r \in 0 .. Rows - 1 |-> [c \in 0 .. Cols - 1 |-> Quantize(PatternColor(c, r))]],
         [r \in 0 .. Rows - 1 |->
             [c \in 0 .. Cols - 1 |-> Quantize(PatternColor(c, r + DrawSplit))]])

Init ==
    /\ BITS \in 0 .. MaxBits
    /\ on_ratio \in ScanRatios
    /\ phase = "ready"
    /\ \E f \in FtcNew(BITS, on_ratio) : ~f.panic /\ h = f.h
    /\ durations = <<>>
    /\ top_data = PatternData.top
    /\ bottom_data = PatternData.bottom
    /\ row_i = 0 /\ mask = 0 /\ col = 0 /\ pc = "idle"
    /\ result = NoResult
    /\ calls = NoCalls
    /\ panel = PowerOn
    /\ pixels = <<>>
    /\ palette = {}
    /\ drawn = 0

Next ==
    \/ OutputBegin
    \/ SetRow
    \/ UpperColor
    \/ LowerColor
    \/ Shift
    \/ Latch
    \/ Show

Spec == Init /\ [][Next]_vars

----------------------------------------------------------------------------
(* Claims about the scan, checked under Spec *)

SupportedBits == BITS \in 1 .. 8

\* C1: when a pin call of output fails, output returns that same error at
\* once: a scan whose record holds a failed call is not running, it returned
\* Err with the error of that call, and until the next output call no
\* further pin call is made.
C1_FailFast ==
    /\ [](/\ calls.failed # "none" =>
                /\ phase = "ready"
                /\ result = [of |-> "output", kind |-> "Err", err |-> calls.failed]
          /\ (result.of = "output" /\ result.kind = "Err") =>
                /\ calls.failed \in Errors
                /\ result.err = calls.failed)
    /\ [][calls.failed # "none" => (calls' = calls \/ calls' = NoCalls)]_vars

\* the scan failed in the upper set_color of column 30 of plane 2 of row 5
C1_Witness ==
    /\ BITS = 4
    /\ phase = "ready"
    /\ result = [of |-> "output", kind |-> "Err", err |-> "E2"]
    /\ calls.row = 5
    /\ calls.cnt.set_row = 6
    /\ calls.cnt.latch = 5 * 4 + 2
    /\ calls.cnt.shift = (5 * 4 + 2) * 64 + 30
    /\ calls.cnt.set_color = 2 * calls.cnt.shift + 1
    /\ calls.ops[2] = "set_color"

\* the set_row, shift, latch and show calls made so far
SeqCalls == calls.cnt.set_row + calls.cnt.shift + calls.cnt.latch + calls.cnt.show

\* the calls of one bit-plane: 64 shifts, a latch, a show
PlaneCalls == 64 + 2

\* the calls of one row: set_row and BITS bit-planes
RowCalls == 1 + BITS * PlaneCalls

\* the k-th call (from 0) of the sequence: for row = 0..15, set_row(row),
\* then for mask = 0..BITS-1, 64 shifts, a latch, show(duration(mask))
ExpectedCall(k) ==
    LET row == k \div RowCalls
        o == k % RowCalls
        m == (o - 1) \div PlaneCalls
        j == (o - 1) % PlaneCalls
    IN IF o = 0 THEN SeqCall("set_row", row)
       ELSE IF j < 64 THEN SeqCall("shift", NoArg)
       ELSE IF j = 64 THEN SeqCall("latch", NoArg)
       ELSE SeqCall("show", DurationValue(BITS, h, m))

\* how many calls of each kind the first n calls of the sequence hold
ExpectedCounts(n) ==
    LET row == n \div RowCalls
        o == n % RowCalls
        t == IF o = 0 THEN 0 ELSE o - 1
        m == t \div PlaneCalls
        j == t % PlaneCalls
    IN [set_row |-> row + (IF o = 0 THEN 0 ELSE 1),
        shift |-> (row * BITS + m) * 64 + (IF j < 64 THEN j ELSE 64),
        latch |-> row * BITS + m + (IF j = 65 THEN 1 ELSE 0),
        show |-> row * BITS + m]

IsColorCall(call, pins, cell, m) ==
    call.pins = pins /\ call.color = cell /\ call.mask = m

\* the two set_color calls for column number s (from 0) of the scan: the
\* upper pins with upper-half cell [i][c], then the lower pins with
\* lower-half cell [i][c], both with the mask of the plane
ColumnPresented(cs, s) ==
    LET c == s % 64
        m == (s \div 64) % BITS
        i == s \div (64 * BITS)
    IN /\ Len(cs) <= 2
       /\ Len(cs) >= 1 => IsColorCall(cs[1], "upper", top_data[i][c], m)
       /\ Len(cs) = 2 => IsColorCall(cs[2], "lower", bottom_data[i][c], m)

\* C3: during output, for every row i, bit-plane mask and column c (columns
\* ascending), the upper pins are given upper-half cell [i][c] and the lower
\* pins lower-half cell [i][c], with the same mask, under the row address i,
\* and both calls complete before the shift of column c; no other set_color
\* call is made between two shifts.
C3_ColumnsPresented ==
    (SupportedBits /\ phase \in {"ready", "scanning"}) =>
        /\ calls.cnt.shift > 0 =>
              /\ Len(calls.shifted) = 2
              /\ ColumnPresented(calls.shifted, calls.cnt.shift - 1)
        /\ calls.pending # <<>> =>
              /\ ColumnPresented(calls.pending, calls.cnt.shift)
              /\ calls.row = calls.cnt.shift \div (64 * BITS)
        /\ calls.ops[2] = "shift" =>
              calls.row = (calls.cnt.shift - 1) \div (64 * BITS)
        /\ calls.ops[2] \in {"set_row", "shift", "latch", "show"} =>
              calls.pending = <<>>
        /\ calls.cnt.set_color = 2 * calls.cnt.shift + Len(calls.pending)

\* column 63 of plane 3 of row 2 was shifted, BITS = 8
C3_Witness ==
    /\ BITS = 8
    /\ phase = "scanning"
    /\ calls.ops[2] = "shift"
    /\ calls.cnt.shift = (2 * 8 + 3) * 64 + 64
    /\ calls.row = 2
    /\ calls.shifted[1].color = top_data[2][63]
    /\ calls.shifted[2].color = bottom_data[2][63]
    /\ calls.shifted[1].color # calls.shifted[2].color
    /\ calls.shifted[2].mask = 3

----------------------------------------------------------------------------
(* Claims about construction and the frame time compensation, checked under
   SpecFtc *)

\* 0 < on_ratio < 1
RatioStrictlyInside(r) == 0 < r.num /\ r.num < Pow2(r.exp)

\* C4: construction fails for every on_ratio that is not strictly between 0
\* and 1 (0, 1, negative values, values above 1) and succeeds for every
\* on_ratio strictly between 0 and 1.
C4_RejectsOutsideOpenInterval ==
    phase # "unbuilt" =>
        ((phase = "panicked" /\ pc = "new") <=> ~RatioStrictlyInside(on_ratio))

\* C5: construction enforces 1 <= BITS <= 8: no display with BITS = 0 or
\* BITS > 8 exists, and no set_color call of a scan computes a bit position
\* mask + 8 - BITS outside 0..7.
C5_BitsEnforced ==
    phase \in {"ready", "scanning"} =>
        /\ BITS \in 1 .. 8
        /\ \A k \in 1 .. Len(calls.pending) : calls.pending[k].pos \in 0 .. 7
        /\ \A k \in 1 .. Len(calls.shifted) : calls.shifted[k].pos \in 0 .. 7

\* (2 * BITS + 1) * on_ratio / (1 - on_ratio) rounded down, as a number of
\* any size: its low 32 bits, and ovf > 0 when it is 2^32 or more
ExactQuotient ==
    LET p == 2 * BITS + 1
        b == Pow2(on_ratio.exp) - on_ratio.num
    IN WideMulAdd(ToU32(on_ratio.num \div b), p, MulDiv(p, on_ratio.num % b, b).q)

Constructed == phase = "ready" /\ SupportedBits /\ RatioStrictlyInside(on_ratio)

\* C6, as claimed: for 0 < on_ratio < 1 and BITS in 1..8 the constant H stored
\* at construction equals floor((2*BITS + 1) * on_ratio / (1 - on_ratio)).
C6_HIsFloor ==
    Constructed => (ExactQuotient.ovf = 0 /\ h = ExactQuotient.val)

\* C6, amended: H equals that floor when it is at most 2^32 - 1, and
\* 2^32 - 1 when it is larger (the cast to u32 saturates).
C6_HIsSaturatedFloor ==
    Constructed =>
        /\ IsU32(h)
        /\ ExactQuotient.ovf = 0 => h = ExactQuotient.val
        /\ ExactQuotient.ovf > 0 => h = U32Max

\* BITS = 8 and on_ratio = 1 - 2^-30: the floor is 17 * (2^30 - 1) > 2^32
C6_Witness ==
    /\ phase = "ready"
    /\ BITS = 8
    /\ on_ratio = Ratio(Pow2(30) - 1, 30)
    /\ ExactQuotient.ovf = 4
    /\ h = U32Max

\* C7: for 0 < on_ratio < 1 and BITS in 1..8 the values duration returns
\* are non-decreasing in mask over 0..BITS-1 (so duration(BITS-1) >=
\* duration(0)).
C7_DurationNonDecreasing ==
    (SupportedBits /\ RatioStrictlyInside(on_ratio)) =>
        \A i, j \in 1 .. Len(durations) :
            i <= j => U32Leq(durations[i], durations[j])

----------------------------------------------------------------------------
(* Claims about draw_iter, checked under SpecDraw *)

\* a step that is a draw_iter call with at least one item
DrawCall == drawn' # drawn

\* such a call returned Ok
DrawReturnedOk ==
    /\ phase' = "ready"
    /\ result' = [of |-> "draw_iter", kind |-> "Ok", err |-> "none"]

\* the item lies outside the 64x32 bounding box
OutsideBox(px) == px.x < 0 \/ px.x >= 64 \/ px.y < 0 \/ px.y >= 32

\* the items of pxs that lie inside the box
InsideItems(pxs) == SelectSeq(pxs, LAMBDA px : ~OutsideBox(px))

\* C8: an item of draw_iter outside the 64x32 box is a no-op: the call still
\* returns Ok, a call with only such items leaves every cell of both halves
\* unchanged, and any call leaves the framebuffer as the call without these
\* items leaves it.
C8_OutsideIsNoOp ==
    [][DrawCall =>
          /\ DrawReturnedOk
          /\ (\A k \in 1 .. Len(pixels') : OutsideBox(pixels'[k])) =>
                (top_data' = top_data /\ bottom_data' = bottom_data)
          /\ Data(top_data', bottom_data')
                = DrawAll(Data(top_data, bottom_data), InsideItems(pixels'))]_vars

\* (64, 0) was drawn on a framebuffer that holds a white cell at (0, 0)
C8_Witness ==
    /\ phase = "ready"
    /\ result.of = "draw_iter"
    /\ pixels = <<Pixel(64, 0, <<31, 63, 31>>)>>
    /\ drawn = 2
    /\ top_data[0][0] = Cell(255, 255, 255)

\* the cell an in-bounds item addresses: upper-half cell [y][x] when y < 16,
\* otherwise lower-half cell [y-16][x]
TargetCell(px) ==
    IF px.y < 16 THEN <<"top", px.y, px.x>> ELSE <<"bottom", px.y - 16, px.x>>

\* (GAMMA8[(r+1)*8-1], GAMMA8[(g+1)*4-1], GAMMA8[(b+1)*8-1])
ExpectedCell(color) ==
    Cell(GAMMA8((color[1] + 1) * 8 - 1),
         GAMMA8((color[2] + 1) * 4 - 1),
         GAMMA8((color[3] + 1) * 8 - 1))

\* the cells <<half, row, column>> of one half that differ between old and new
ChangedIn(half, old, new) ==
    UNION {{<<half, r, c>> : c \in {k \in 0 .. 63 : new[r][k] # old[r][k]}} :
              r \in {k \in 0 .. 15 : new[k] # old[k]}}

\* the cells a step changes
ChangedCells ==
    ChangedIn("top", top_data, top_data')
        \cup ChangedIn("bottom", bottom_data, bottom_data')

\* C9: a write at an in-bounds (x, y) modifies exactly one cell, upper-half
\* cell [y][x] when y < 16 and lower-half cell [y-16][x] otherwise, and
\* leaves every other cell of both halves unchanged: a call changes no cell
\* but those its in-bounds items address, and a call with one in-bounds item
\* whose stored color differs from the cell's content changes that cell.
C9_OneCellWritten ==
    [][DrawCall =>
          /\ DrawReturnedOk
          /\ ChangedCells \subseteq
                {TargetCell(pixels'[k]) :
                    k \in {n \in 1 .. Len(pixels') : ~OutsideBox(pixels'[n])}}
          /\ (Len(pixels') = 1 /\ ~OutsideBox(pixels'[1])) =>
                LET id == TargetCell(pixels'[1])
                IN ExpectedCell(pixels'[1].color)
                        # Data(top_data, bottom_data)[id[1]][id[2]][id[3]]
                      => ChangedCells = {id}]_vars

\* white was written at (63, 31): lower half, row 15, column 63
C9_Witness ==
    /\ phase = "ready"
    /\ result.of = "draw_iter"
    /\ pixels = <<Pixel(63, 31, <<31, 63, 31>>)>>
    /\ bottom_data[15][63] = Cell(255, 255, 255)
    /\ top_data[15][63] = Black
    /\ bottom_data[0][0] = Black

\* C10: after an in-bounds write with color (r, g, b) the cell holds
\* (GAMMA8[(r+1)*8-1], GAMMA8[(g+1)*4-1], GAMMA8[(b+1)*8-1]), in the upper
\* half as in the lower; color 0 at (0, 0) stores (GAMMA8[7], GAMMA8[3],
\* GAMMA8[7]).  (Stated for the last item of a call, which no later item of
\* the call overwrites.)
C10_StoredCell ==
    [][DrawCall =>
          /\ DrawReturnedOk
          /\ LET px == pixels'[Len(pixels')]
                 id == TargetCell(px)
             IN ~OutsideBox(px) =>
                   Data(top_data', bottom_data')[id[1]][id[2]][id[3]]
                       = ExpectedCell(px.color)]_vars

\* color 0 was written at (0, 0) over a white cell
C10_Witness ==
    /\ phase = "ready"
    /\ result.of = "draw_iter"
    /\ pixels = <<Pixel(0, 0, <<31, 63, 31>>), Pixel(0, 0, <<0, 0, 0>>)>>
    /\ top_data[0][0] = Cell(GAMMA8(7), GAMMA8(3), GAMMA8(7))

\* the positions of the in-bounds items of pxs that address cell id
Addressing(pxs, id) ==
    {k \in 1 .. Len(pxs) : ~OutsideBox(pxs[k]) /\ TargetCell(pxs[k]) = id}

\* the last item of pxs that addresses cell id
LastAddressing(pxs, id) ==
    pxs[CHOOSE k \in Addressing(pxs, id) : \A j \in Addressing(pxs, id) : j <= k]

\* the cells the in-bounds items of pxs address
AddressedCells(pxs) ==
    {TargetCell(pxs[k]) : k \in {n \in 1 .. Len(pxs) : ~OutsideBox(pxs[n])}}

\* C11: after draw_iter over any finite sequence of items, in any order and
\* with duplicates, every cell addressed by at least one in-bounds item holds
\* the quantized color of the last item that addresses it, and every cell
\* addressed by none holds its value from before the call.
C11_LastWriteWins ==
    [][DrawCall =>
          /\ DrawReturnedOk
          /\ \A id \in AddressedCells(pixels') :
                Data(top_data', bottom_data')[id[1]][id[2]][id[3]]
                    = ExpectedCell(LastAddressing(pixels', id).color)
          /\ ChangedCells \subseteq AddressedCells(pixels')]_vars

\* (63, 31) was written black and then white in one call
C11_Witness ==
    /\ phase = "ready"
    /\ result.of = "draw_iter"
    /\ pixels = <<Pixel(63, 31, <<0, 0, 0>>), Pixel(63, 31, <<31, 63, 31>>)>>
    /\ bottom_data[15][63] = Cell(255, 255, 255)

\* a half whose 16 x 64 cells are all (0, 0, 0)
BlackHalf == [r \in 0 .. 15 |-> [c \in 0 .. 63 |-> Cell(0, 0, 0)]]

\* every cell of both halves is (0, 0, 0)
AllBlack == top_data = BlackHalf /\ bottom_data = BlackHalf

\* C12: after wipe, whatever pixel writes and wipes preceded it, every cell
\* of both halves is (0, 0, 0); the same holds for a freshly constructed
\* display (one on which nothing has been called yet).
C12_WipedIsBlack ==
    /\ (phase = "ready" /\ result.of = "wipe") => AllBlack
    /\ (phase = "ready" /\ result = NoResult) => AllBlack

\* white was drawn in both halves and then wiped
C12_Witness ==
    /\ phase = "ready"
    /\ result.of = "wipe"
    /\ pixels = <<Pixel(0, 0, <<31, 63, 31>>), Pixel(63, 31, <<31, 63, 31>>)>>
    /\ AllBlack

\* bit number b of the 8-bit value v
BitNumber(v, b) == (v \div Pow2(b)) % 2

\* a set_color call drives the red, green and blue pins to bit number
\* mask + (8 - BITS) of its cell's channels
DrivesScannedBit(call) ==
    LET b == call.mask + (8 - BITS)
    IN /\ call.mask \in 0 .. BITS - 1
       /\ b \in 8 - BITS .. 7
       /\ call.mask = BITS - 1 => b = 7
       /\ call.pos = b
       /\ call.levels = <<BitNumber(Red(call.color), b),
                          BitNumber(Green(call.color), b),
                          BitNumber(Blue(call.color), b)>>

\* C13: for BITS in 1..8 and mask in 0..BITS-1, set_color drives each of the
\* red, green and blue pins high exactly when bit number mask + (8 - BITS) of
\* the corresponding channel is 1; the scanned positions are the most
\* significant bits 8-BITS..7, and mask = BITS-1 selects bit 7.
C13_ScannedBits ==
    SupportedBits =>
        /\ \A k \in 1 .. Len(calls.pending) : DrivesScannedBit(calls.pending[k])
        /\ \A k \in 1 .. Len(calls.shifted) : DrivesScannedBit(calls.shifted[k])

\* BITS = 5, plane 4: bit 7 of a cell with a red bit that differs from its
\* green bit was put on the lower pins
C13_Witness ==
    /\ BITS = 5
    /\ phase = "scanning"
    /\ calls.failed = "none"
    /\ Len(calls.pending) = 2
    /\ calls.pending[2].pins = "lower"
    /\ calls.pending[2].mask = 4
    /\ calls.pending[2].pos = 7
    /\ calls.pending[2].levels[1] # calls.pending[2].levels[2]

\* a step in which output makes its next show call
ShowCall == calls'.cnt.show = calls.cnt.show + 1

\* C14: each successful show(duration) performs exactly, in order: drive
\* output-enable low, wait duration delay units, drive output-enable high;
\* output-enable is high when show returns Ok, and the wait is the duration
\* output passed for the bit-plane.
C14_ShowSequence ==
    [][(ShowCall /\ calls'.failed = "none") =>
          /\ calls'.last.op = "show"
          /\ panel'.events = <<[op |-> "set_low", us |-> U32(0, 0)],
                               [op |-> "delay_us", us |-> calls'.last.arg],
                               [op |-> "set_high", us |-> U32(0, 0)]>>
          /\ panel'.oe = "high"]_vars

\* BITS = 4, on_ratio = 3/4 (H = 27): the show of plane 3 of row 0 waited
\* 8 * 27 / 15 = 14 delay units
C14_Witness ==
    /\ BITS = 4
    /\ calls.failed = "none"
    /\ calls.cnt.show = 4
    /\ calls.ops[2] = "show"
    /\ calls.last = SeqCall("show", U32(0, 14))
    /\ panel.events[2] = [op |-> "delay_us", us |-> U32(0, 14)]
    /\ panel.oe = "high"

\* a step of an output call, from its entry to its return or panic
OutputStep == phase = "scanning" \/ phase' = "scanning"

\* C17: output never modifies the framebuffer or the compensation constant
\* H, whether it returns Ok or aborts with an error at any point, and a
\* following output call starts again at row 0, bit-plane 0 with the same
\* image.
C17_OutputReadsOnly ==
    /\ [][OutputStep =>
             (top_data' = top_data /\ bottom_data' = bottom_data /\ h' = h)]_vars
    /\ [][(phase = "ready" /\ phase' = "scanning") =>
             (row_i' = 0 /\ mask' = 0 /\ col' = 0 /\ pc' = "set_row"
                 /\ calls' = NoCalls)]_vars

\* an output call was aborted by the third latch, and the image is the one
\* scanned
C17_Witness ==
    /\ phase = "ready"
    /\ result = ErrResult("E2")
    /\ calls.ops[2] = "latch"
    /\ calls.cnt.latch = 3
    /\ top_data = PatternData.top
    /\ bottom_data = PatternData.bottom
    /\ h = U32(0, 27)
    /\ BITS = 4

\* a step in which output makes a set_row, set_color, shift or latch call
CallOutsideShow ==
    \E op \in {"set_row", "set_color", "shift", "latch"} :
        calls'.cnt[op] = calls.cnt[op] + 1

\* C18: in error-free output calls, from the completion of the first show
\* onward, output-enable is low only inside a show: it is high once a show
\* of an error-free call has returned, every set_row, set_color, shift and
\* latch call is made while it is high (unless no show has driven it yet or
\* a show has failed), and the columns latched when show drives it low are
\* all 64 of the asserted row address and the current bit-plane.
C18_LitOnlyInShow ==
    /\ []((calls.failed = "none" /\ calls.cnt.show >= 1) => panel.oe = "high")
    /\ [][(CallOutsideShow /\ panel.oe # "unknown") => panel.oe = "high"]_vars
    /\ [][(ShowCall /\ panel'.events # <<>>) =>
             /\ panel'.events[1].op = "set_low"
             /\ panel.addr = row_i
             /\ panel.latched = Plane(panel.addr, mask, 64)
             /\ panel'.addr = panel.addr /\ panel'.latched = panel.latched]_vars

\* BITS = 2: after the shows of row 0 the address of row 1 was set with
\* output-enable high, while the latches still hold plane 1 of row 0
C18_Witness ==
    /\ BITS = 2
    /\ phase = "scanning"
    /\ calls.failed = "none"
    /\ calls.ops = <<"show", "set_row">>
    /\ calls.cnt.show = 2
    /\ panel.oe = "high"
    /\ panel.addr = 1
    /\ panel.latched = Plane(0, 1, 64)

----------------------------------------------------------------------------
(* Claims about the gamma table and the indices of draw_iter, checked under
   SpecDraw *)

\* the gamma values of the three channels of a 565 color
GammaOf(color) ==
    <<GAMMA8((color[1] + 1) * 8 - 1), GAMMA8((color[2] + 1) * 4 - 1),
      GAMMA8((color[3] + 1) * 8 - 1)>>

\* C15: the 256-entry gamma table is monotonic nondecreasing (GAMMA8[i] <=
\* GAMMA8[i+1] for all i in 0..254), with GAMMA8[0] = 0 and GAMMA8[255] = 255;
\* so of two colors the application draws with, the one with the larger
\* channel value never gets the smaller gamma value.
C15_GammaMonotonic ==
    /\ Len(Gamma8Table) = 256
    /\ \A i \in 0 .. 254 : GAMMA8(i) <= GAMMA8(i + 1)
    /\ GAMMA8(0) = 0
    /\ GAMMA8(255) = 255
    /\ \A c1, c2 \in palette : \A ch \in 1 .. 3 :
          c1[ch] <= c2[ch] => GammaOf(c1)[ch] <= GammaOf(c2)[ch]

\* the darkest and the brightest color were stored through the table
C15_Witness ==
    /\ phase = "ready"
    /\ result.of = "draw_iter"
    /\ pixels = <<Pixel(0, 0, <<0, 0, 0>>), Pixel(63, 15, <<31, 63, 31>>)>>
    /\ top_data[0][0] = Cell(GAMMA8(7), GAMMA8(3), GAMMA8(7))
    /\ top_data[15][63] = Cell(GAMMA8(255), GAMMA8(255), GAMMA8(255))
    /\ Red(top_data[0][0]) <= Red(top_data[15][63])

\* the three gamma indices of a 565 color lie in the table
IndicesInTable(color) ==
    /\ color[1] \in 0 .. 31 /\ color[2] \in 0 .. 63 /\ color[3] \in 0 .. 31
    /\ (color[1] + 1) * 8 - 1 \in 0 .. 255
    /\ (color[2] + 1) * 4 - 1 \in 0 .. 255
    /\ (color[3] + 1) * 8 - 1 \in 0 .. 255

\* C19: for every 565 color the gamma indices (r+1)*8-1, (g+1)*4-1 and
\* (b+1)*8-1 lie in 0..255, and for every in-bounds coordinate the row and
\* column indices lie within the 16x64 half they address, so draw_iter never
\* indexes out of range and always returns Ok.
C19_IndicesInRange ==
    /\ \A color \in palette : IndicesInTable(color)
    /\ \A k \in 1 .. Len(pixels) :
          /\ IndicesInTable(pixels[k].color)
          /\ ~OutsideBox(pixels[k]) =>
                (TargetCell(pixels[k])[2] \in 0 .. 15
                    /\ TargetCell(pixels[k])[3] \in 0 .. 63)
    /\ ~(phase = "panicked" /\ pc = "draw_iter")
    /\ result.of = "draw_iter" => result.kind = "Ok"

\* white, with the largest indices 255, was stored in the last row and
\* column of both halves
C19_Witness ==
    /\ phase = "ready"
    /\ result = [of |-> "draw_iter", kind |-> "Ok", err |-> "none"]
    /\ pixels = <<Pixel(63, 15, <<31, 63, 31>>), Pixel(63, 31, <<31, 63, 31>>)>>
    /\ top_data[15][63] = Cell(255, 255, 255)
    /\ bottom_data[15][63] = Cell(255, 255, 255)

----------------------------------------------------------------------------
(* Claims about the durations, checked under SpecFtc *)

\* 2 * x + a for a u32 x
Twice(x, a) == WideMulAdd(x, 2, a)

\* C16, as claimed: for every BITS in 1..8, every H produced by construction
\* and every mask in 0..BITS-2, duration(mask + 1) = 2 * duration(mask).
C16_DurationDoubles ==
    SupportedBits =>
        \A i \in 1 .. Len(durations) - 1 :
            Twice(durations[i], 0).ovf = 0
                /\ durations[i + 1] = Twice(durations[i], 0).val

\* C16, amended: when 2^(mask + 1) * H fits in 32 bits, duration(mask + 1)
\* is 2 * duration(mask) or 2 * duration(mask) + 1 (each value is rounded
\* down separately).
C16_DurationDoublesRounded ==
    SupportedBits =>
        \A i \in 1 .. Len(durations) - 1 :
            DurationProduct(h, i).ovf = 0 =>
                /\ Twice(durations[i], 1).ovf = 0
                /\ durations[i + 1] \in
                      {Twice(durations[i], 0).val, Twice(durations[i], 1).val}

\* BITS = 2, H = 5: duration(0) = 5 / 3 = 1 and duration(1) = 10 / 3 = 3
C16_Witness ==
    /\ BITS = 2
    /\ phase = "ready"
    /\ h = U32(0, 5)
    /\ durations = <<U32(0, 1), U32(0, 3)>>

\* x + y for two u32 values: the low 32 bits and the carry
U32Add(x, y) ==
    LET l == x.lo + y.lo
        u == x.hi + y.hi + l \div Limb
    IN [ovf |-> u \div Limb, val |-> U32(u % Limb, l % Limb)]

\* the sum of a sequence of u32 values, with ovf > 0 when it leaves 32 bits
RECURSIVE SumU32(_)
SumU32(seq) ==
    IF seq = <<>> THEN [ovf |-> 0, val |-> U32(0, 0)]
    ELSE LET s == SumU32(Tail(seq))
             t == U32Add(Head(seq), s.val)
         IN [ovf |-> s.ovf + t.ovf, val |-> t.val]

\* H is a multiple of 2^BITS - 1
HIsMultiple ==
    LET d == Pow2(BITS) - 1
        q == DivSmall(h, d)
    IN WideMulAdd(q, d, 0) = [ovf |-> 0, val |-> h]

\* C20: for every BITS in 1..8 and every H for which 2^(BITS-1) * H fits in
\* 32 bits, the sum of duration(mask) over mask = 0..BITS-1 is at most H, and
\* equals H exactly when H is a multiple of 2^BITS - 1.
C20_SumAtMostH ==
    (SupportedBits /\ phase = "ready" /\ Len(durations) = BITS
        /\ DurationProduct(h, BITS - 1).ovf = 0) =>
        /\ SumU32(durations).ovf = 0
        /\ U32Leq(SumU32(durations).val, h)
        /\ SumU32(durations).val = h <=> HIsMultiple

\* BITS = 2, H = 15: duration(0) + duration(1) = 5 + 10 = 15
C20_Witness ==
    /\ BITS = 2
    /\ phase = "ready"
    /\ h = U32(0, 15)
    /\ durations = <<U32(0, 5), U32(0, 10)>>
    /\ SumU32(durations).val = h

====
